---- MODULE Spec2Model ----
(***************************************************************************)
(* A model of funcy/functions.py: the Function class (closures over an     *)
(* evaluation rule), its operator overloads, derivative() and the adaptive *)
(* Simpson integrate().                                                    *)
(*                                                                         *)
(* Numbers.  A Python float/int is modelled by an exact rational           *)
(* <<"num", n, d>> (d > 0, lowest terms), float("nan") by <<"nan", 0, 1>>, *)
(* and a raised exception by <<kind, 0, 1>> with kind the exception class. *)
(* An exception raised by a sub-expression propagates through every        *)
(* enclosing expression, left operand first, as in Python.                 *)
(***************************************************************************)
EXTENDS Integers, Sequences, FiniteSets, TLC

VARIABLES
    op, lhs, rhs, out, depth,      \* last operator applied, its operands, its result
    pt, val, halved,               \* last evaluation of out: point, value, one-sided step seen
    ipc, ifn, iargs,               \* integrate(): control point, self, (start, end, tol, MAX)
    intervals_to_integrate,        \* integrate(): the work-list (a stack of (start, end))
    acc_int, iret, iters,          \* integrate(): running total, returned value, loop count
    calls, ret1,                   \* number of integrate() calls made, result of the first
    accepted,                      \* integrate(): the intervals added to acc_int so far
    npc, nargs, nret, nevals,      \* norm(): control point, (func, norm_type, tol), result,
                                   \*   evaluations of a Function norm itself has made
    gpc, gargs,                    \* _plot(): control point, (self, start, end, step)
    domain, curr, f_evals, grid,   \* _get_eval_grid(): domain, curr, f_evals; _plot(): grid
    gret                           \* _plot(): the exception it ended with, if any

algVars == <<op, lhs, rhs, out, depth, pt, val, halved>>
intVars ==
    <<ipc, ifn, iargs, intervals_to_integrate, acc_int, iret, iters, calls, ret1, accepted>>
normVars == <<npc, nargs, nret, nevals>>
gridVars == <<gpc, gargs, domain, curr, f_evals, grid, gret>>
vars == <<algVars, intVars, normVars, gridVars>>

---------------------------------------------------------------------------
(* Bounds of the model *)

\* how many operator applications may be chained on one Function
MaxDepth == 1
\* how many loop iterations of integrate() one call is followed for
MaxIter == 14

---------------------------------------------------------------------------
(* Python numbers *)

Abs(i) == IF i < 0 THEN -i ELSE i

RECURSIVE GCD(_, _)
GCD(a, b) == IF b = 0 THEN a ELSE GCD(b, a % b)

Rat(n, d) ==
    LET s == IF d < 0 THEN -1 ELSE 1
        g == GCD(Abs(n), Abs(d))
    IN  <<"num", (s * n) \div g, (s * d) \div g>>

NaN == <<"nan", 0, 1>>
Exc(kind) == <<kind, 0, 1>>
Zero == Rat(0, 1)
One == Rat(1, 1)
Two == Rat(2, 1)

IsNum(v) == v[1] = "num"
isnan(v) == v[1] = "nan"
IsExc(v) == v[1] \notin {"num", "nan"}

\* v == 0 (False for NaN)
EqZero(v) == IsNum(v) /\ v[2] = 0
\* a < b, a <= b, a > b on numbers (False when either is NaN)
NumLt(a, b) ==
    /\ IsNum(a) /\ IsNum(b)
    /\ LET g == GCD(a[3], b[3]) IN a[2] * (b[3] \div g) < b[2] * (a[3] \div g)
NumLe(a, b) ==
    /\ IsNum(a) /\ IsNum(b)
    /\ LET g == GCD(a[3], b[3]) IN a[2] * (b[3] \div g) <= b[2] * (a[3] \div g)
NumGt(a, b) == NumLt(b, a)
IsInt(v) == IsNum(v) /\ v[3] = 1

NumNeg(a) ==
    IF IsExc(a) \/ isnan(a) THEN a ELSE Rat(-a[2], a[3])

NumAbs(a) ==
    IF IsExc(a) \/ isnan(a) THEN a ELSE Rat(Abs(a[2]), a[3])

NumAdd(a, b) ==
    IF IsExc(a) THEN a ELSE IF IsExc(b) THEN b
    ELSE IF isnan(a) \/ isnan(b) THEN NaN
    ELSE LET g == GCD(a[3], b[3])
         IN  Rat(a[2] * (b[3] \div g) + b[2] * (a[3] \div g), (a[3] \div g) * b[3])

NumSub(a, b) ==
    IF IsExc(a) THEN a ELSE IF IsExc(b) THEN b
    ELSE IF isnan(a) \/ isnan(b) THEN NaN
    ELSE LET g == GCD(a[3], b[3])
         IN  Rat(a[2] * (b[3] \div g) - b[2] * (a[3] \div g), (a[3] \div g) * b[3])

NumMul(a, b) ==
    IF IsExc(a) THEN a ELSE IF IsExc(b) THEN b
    ELSE IF isnan(a) \/ isnan(b) THEN NaN
    ELSE LET g == GCD(Abs(a[2]), b[3])
             h == GCD(Abs(b[2]), a[3])
         IN  Rat((a[2] \div g) * (b[2] \div h), (a[3] \div h) * (b[3] \div g))

\* a / b: Python raises ZeroDivisionError for a zero divisor, also for nan / 0
NumDiv(a, b) ==
    IF IsExc(a) THEN a ELSE IF IsExc(b) THEN b
    ELSE IF EqZero(b) THEN Exc("ZeroDivisionError")
    ELSE IF isnan(a) \/ isnan(b) THEN NaN
    ELSE NumMul(a, Rat(b[3], b[2]))

RECURSIVE IntPow(_, _)
IntPow(n, k) == IF k = 0 THEN 1 ELSE n * IntPow(n, k - 1)

\* the largest k with k*k <= n
RECURSIVE IsqrtIn(_, _, _)
IsqrtIn(n, lo, hi) ==
    IF lo = hi THEN lo
    ELSE LET mid == (lo + hi + 1) \div 2
         IN  IF mid * mid <= n THEN IsqrtIn(n, mid, hi) ELSE IsqrtIn(n, lo, mid - 1)
Isqrt(n) == IsqrtIn(n, 0, IF n < 46340 THEN n ELSE 46340)

---------------------------------------------------------------------------
(* The math library calls behind the elementary Functions.  Where a call   *)
(* raises and where it returns is as the library documents it.  Its value  *)
(* is irrational at almost every rational argument and the library returns *)
(* it rounded to the precision of a float; here the value is a rational    *)
(* approximation of low order, with the sign, zeros and monotonicity of    *)
(* the function, rounded to the nearest multiple of 1/Grid.                *)

\* the precision of a library result
Grid == 8
\* magnitude of the argument at which math.exp leaves the float range
ExpMax == 2
\* tan at the float nearest to a pole is large but finite
TanPole == 64

\* v rounded to the nearest multiple of 1/Grid, ties away from 0
Round(v) ==
    IF IsExc(v) \/ isnan(v) THEN v
    ELSE LET m == (2 * Abs(v[2]) * Grid + v[3]) \div (2 * v[3])
         IN  Rat((IF v[2] < 0 THEN -1 ELSE 1) * m, Grid)

\* math.exp: OverflowError above the range, 0.0 below it
MathExp(v) ==
    IF IsExc(v) \/ isnan(v) THEN v
    ELSE IF NumLe(Rat(ExpMax, 1), v) THEN Exc("OverflowError")
    ELSE IF NumLe(v, Rat(-ExpMax, 1)) THEN Zero
    ELSE Round(NumDiv(NumAdd(Rat(ExpMax, 1), v), NumSub(Rat(ExpMax, 1), v)))

\* math.log: ValueError ("math domain error") for v <= 0
MathLog(v) ==
    IF IsExc(v) \/ isnan(v) THEN v
    ELSE IF NumLe(v, Zero) THEN Exc("ValueError")
    ELSE Round(NumDiv(NumMul(Rat(ExpMax, 1), NumSub(v, One)), NumAdd(v, One)))

\* math.sqrt: ValueError for v < 0
MathSqrt(v) ==
    IF IsExc(v) \/ isnan(v) THEN v
    ELSE IF NumLt(v, Zero) THEN Exc("ValueError")
    ELSE Rat(Isqrt((v[2] * Grid * Grid) \div v[3]), Grid)

MathSin(v) ==
    IF IsExc(v) \/ isnan(v) THEN v
    ELSE Round(NumDiv(NumMul(Rat(4, 1), v), NumAdd(Rat(4, 1), NumMul(v, v))))

MathCos(v) ==
    IF IsExc(v) \/ isnan(v) THEN v
    ELSE Round(NumDiv(NumSub(Rat(4, 1), NumMul(v, v)), NumAdd(Rat(4, 1), NumMul(v, v))))

\* math.tan never raises on a finite argument
MathTan(v) ==
    IF IsExc(v) \/ isnan(v) THEN v
    ELSE IF NumMul(v, v) = Rat(4, 1)
         THEN (IF NumLt(v, Zero) THEN Rat(-TanPole, 1) ELSE Rat(TanPole, 1))
    ELSE Round(NumDiv(NumMul(Rat(4, 1), v), NumSub(Rat(4, 1), NumMul(v, v))))

\* math.asin, math.acos: ValueError outside [-1, 1]
MathAsin(v) ==
    IF IsExc(v) \/ isnan(v) THEN v
    ELSE IF NumLt(One, NumAbs(v)) THEN Exc("ValueError")
    ELSE Round(NumMul(Rat(3, 2), v))

MathAcos(v) ==
    IF IsExc(v) \/ isnan(v) THEN v
    ELSE IF NumLt(One, NumAbs(v)) THEN Exc("ValueError")
    ELSE Round(NumSub(Rat(3, 2), NumMul(Rat(3, 2), v)))

MathAtan(v) ==
    IF IsExc(v) \/ isnan(v) THEN v
    ELSE Round(NumDiv(NumMul(Rat(3, 2), v), NumAdd(One, NumAbs(v))))

\* a ** b of Python numbers
NumPow(a, b) ==
    IF IsExc(a) THEN a ELSE IF IsExc(b) THEN b
    ELSE IF EqZero(b) \/ a = One THEN One            \* nan ** 0 == 1 ** nan == 1.0
    ELSE IF isnan(a) \/ isnan(b) THEN NaN
    ELSE IF IsInt(b) THEN
        IF b[2] > 0 THEN Rat(IntPow(a[2], b[2]), IntPow(a[3], b[2]))
        ELSE IF a[2] = 0 THEN Exc("ZeroDivisionError")
        ELSE Rat(IntPow(a[3], -b[2]), IntPow(a[2], -b[2]))
    ELSE IF a[2] = 0 THEN (IF b[2] > 0 THEN Zero ELSE Exc("ZeroDivisionError"))
    ELSE IF a[2] < 0 THEN Exc("complex")             \* a complex number, not a real
    ELSE MathExp(NumMul(b, MathLog(a)))

---------------------------------------------------------------------------
(* class Function.  An object is <<"Function", func>> with func the rule   *)
(* it wraps; a rule is either an elementary callable or a closure          *)
(* <<name, captured variables...>> created by one of the methods.  A       *)
(* raised TypeError is <<"TypeError", what>>, what naming the operator of  *)
(* the message ("call" for the message of __call__).                       *)

Function(func) == <<"Function", func>>
TypeError(what) == <<"TypeError", what>>

\* isinstance(v, Function), isinstance(v, Number)
IsFunction(v) == v[1] = "Function"
IsNumber(v) == v[1] \in {"num", "nan"}
\* the call did not return: it raised
IsRaised(v) == ~IsFunction(v) /\ ~IsNumber(v)

RECURSIVE eval(_, _)

\* _log: nan for num <= 0, otherwise math.log(num)
_log(num) ==
    IF NumLe(num, Zero) THEN NaN ELSE MathLog(num)

\* level k of a point at distance a from 0: the least k with a >= 2^-k
RECURSIVE Level(_, _)
Level(a, k) ==
    IF NumLe(One, NumMul(a, Rat(IntPow(2, k), 1))) THEN k ELSE Level(a, k + 1)

\* a rule supplied by the user of Function(func): nan at 0 and 4^k on
\* 2^-k <= |num| < 2^-(k-1), a staircase whose integral towards 0 diverges
\* as that of 1/num**2 does
pole(num) ==
    IF isnan(num) THEN NaN
    ELSE IF EqZero(num) THEN NaN
    ELSE Rat(IntPow(4, Level(NumAbs(num), 0)), 1)

\* a rule supplied by the user of Function(func): 1 on [-1/4, 1/4], 0 elsewhere
bump(num) ==
    IF isnan(num) THEN NaN
    ELSE IF NumLe(NumAbs(num), Rat(1, 4)) THEN One
    ELSE Zero

\* a rule supplied by the user of Function(func): 15 at 0, 0 elsewhere
needle(num) ==
    IF isnan(num) THEN NaN
    ELSE IF EqZero(num) THEN Rat(15, 1)
    ELSE Zero

\* the composition in the other order: func_or_num applied after self
func_call_swapped(self, func_or_num, num) == eval(func_or_num, eval(self, num))

\* __call__.func
func_call(self, func_or_num, num) == eval(self, eval(func_or_num, num))

\* __neg__.func
func_neg(self, arg) == NumNeg(eval(self, arg))

\* the lambda of __abs__
func_abs(self, num) == NumAbs(eval(self, num))

added(self, func_or_num, num) ==
    IF IsFunction(func_or_num)
    THEN NumAdd(eval(self, num), eval(func_or_num, num))
    ELSE NumAdd(eval(self, num), func_or_num)

subtracted(self, func_or_num, num) ==
    IF IsFunction(func_or_num)
    THEN NumSub(eval(self, num), eval(func_or_num, num))
    ELSE NumSub(eval(self, num), func_or_num)

multiplied(self, func_or_num, num) ==
    IF IsFunction(func_or_num)
    THEN NumMul(eval(self, num), eval(func_or_num, num))
    ELSE NumMul(eval(self, num), func_or_num)

\* a division that does not look at the divisor first
divided_unguarded(self, func_or_num, num) ==
    IF IsFunction(func_or_num)
    THEN NumDiv(eval(self, num), eval(func_or_num, num))
    ELSE NumDiv(eval(self, num), func_or_num)

divided(self, func_or_num, num) ==
    IF IsFunction(func_or_num)
    THEN LET d == eval(func_or_num, num)
         IN  IF IsExc(d) THEN d
             ELSE IF EqZero(d) THEN NaN
             ELSE NumDiv(eval(self, num), d)
    ELSE IF EqZero(func_or_num) THEN NaN
    ELSE NumDiv(eval(self, num), func_or_num)

\* __rtruediv__.inverse
inverse(self, num) ==
    LET v == eval(self, num)
    IN  IF IsExc(v) THEN v
        ELSE IF EqZero(v) THEN NaN
        ELSE NumDiv(One, v)

power(self, func_or_num, num) ==
    IF IsFunction(func_or_num)
    THEN NumPow(eval(self, num), eval(func_or_num, num))
    ELSE NumPow(eval(self, num), func_or_num)

\* derivative.deriv takes the one-sided branch at num: h = h/2
DerivHalves(self, dx, num) ==
    LET f0 == eval(self, num)
        f_posh == eval(self, NumAdd(num, dx))
        f_negh == eval(self, NumSub(num, dx))
    IN  /\ IsNum(f0)
        /\ ~IsExc(f_posh) /\ ~IsExc(f_negh)
        /\ (isnan(f_posh) \/ isnan(f_negh))

\* a difference quotient that does not look at f(num) first
deriv_unchecked(self, dx, num) ==
    LET f0 == eval(self, num)
        f_posh == eval(self, NumAdd(num, dx))
        f_negh == eval(self, NumSub(num, dx))
    IN  IF IsExc(f0) THEN f0
        ELSE IF IsExc(f_posh) THEN f_posh
        ELSE IF IsExc(f_negh) THEN f_negh
        ELSE IF isnan(f_posh) THEN NumDiv(NumSub(f0, f_negh), dx)
        ELSE IF isnan(f_negh) THEN NumDiv(NumSub(f_posh, f0), dx)
        ELSE NumDiv(NumSub(f_posh, f_negh), NumMul(Two, dx))

\* a difference quotient that keeps the full step in its one-sided branches
deriv_unhalved(self, dx, num) ==
    LET f0 == eval(self, num)
        f_posh == eval(self, NumAdd(num, dx))
        f_negh == eval(self, NumSub(num, dx))
    IN  IF IsExc(f0) THEN f0
        ELSE IF isnan(f0) THEN NaN
        ELSE IF IsExc(f_posh) THEN f_posh
        ELSE IF IsExc(f_negh) THEN f_negh
        ELSE IF isnan(f_posh) THEN NumDiv(NumSub(f0, f_negh), NumMul(Two, dx))
        ELSE IF isnan(f_negh) THEN NumDiv(NumSub(f_posh, f0), NumMul(Two, dx))
        ELSE NumDiv(NumSub(f_posh, f_negh), NumMul(Two, dx))

\* derivative.deriv(num, h=dx)
deriv(self, dx, num) ==
    LET f0 == eval(self, num)
    IN  IF IsExc(f0) THEN f0
        ELSE IF isnan(f0) THEN NaN
        ELSE LET f_posh == eval(self, NumAdd(num, dx))
                 f_negh == eval(self, NumSub(num, dx))
                 half == NumDiv(dx, Two)
             IN  IF IsExc(f_posh) THEN f_posh
                 ELSE IF IsExc(f_negh) THEN f_negh
                 ELSE IF isnan(f_posh)
                      THEN NumDiv(NumSub(f0, f_negh), NumMul(Two, half))
                 ELSE IF isnan(f_negh)
                      THEN NumDiv(NumSub(f_posh, f0), NumMul(Two, half))
                 ELSE NumDiv(NumSub(f_posh, f_negh), NumMul(Two, dx))

\* self._function(num): the wrapped rule applied to num
_function(func, num) ==
    CASE func[1] = "math.exp" -> MathExp(num)
      [] func[1] = "math.log" -> MathLog(num)
      [] func[1] = "_log" -> _log(num)
      [] func[1] = "math.sin" -> MathSin(num)
      [] func[1] = "math.asin" -> MathAsin(num)
      [] func[1] = "math.cos" -> MathCos(num)
      [] func[1] = "math.acos" -> MathAcos(num)
      [] func[1] = "math.tan" -> MathTan(num)
      [] func[1] = "math.atan" -> MathAtan(num)
      [] func[1] = "math.sqrt" -> MathSqrt(num)
      [] func[1] = "lambda num: num" -> num
      [] func[1] = "pole" -> pole(num)
      [] func[1] = "bump" -> bump(num)
      [] func[1] = "needle" -> needle(num)
      [] func[1] = "func_call" -> func_call(func[2], func[3], num)
      [] func[1] = "func_neg" -> func_neg(func[2], num)
      [] func[1] = "func_abs" -> func_abs(func[2], num)
      [] func[1] = "added" -> added(func[2], func[3], num)
      [] func[1] = "subtracted" -> subtracted(func[2], func[3], num)
      [] func[1] = "multiplied" -> multiplied(func[2], func[3], num)
      [] func[1] = "divided" -> divided(func[2], func[3], num)
      [] func[1] = "inverse" -> inverse(func[2], num)
      [] func[1] = "power" -> power(func[2], func[3], num)
      [] func[1] = "deriv" -> deriv(func[2], func[3], num)

\* Function.eval; an argument that failed to evaluate never reaches the rule
eval(self, num) ==
    IF IsExc(num) THEN num ELSE _function(self[2], num)

__call__(self, func_or_num) ==
    IF IsNumber(func_or_num) THEN eval(self, func_or_num)
    ELSE IF IsFunction(func_or_num)
         THEN Function(<<"func_call", self, func_or_num>>)
    ELSE TypeError("call")

__neg__(self) == Function(<<"func_neg", self>>)

__pos__(self) == self

__abs__(self) == Function(<<"func_abs", self>>)

__add__(self, func_or_num) ==
    IF IsFunction(func_or_num) \/ IsNumber(func_or_num)
    THEN Function(<<"added", self, func_or_num>>)
    ELSE TypeError("+")

__radd__(self, func_or_num) == __add__(self, func_or_num)

__sub__(self, func_or_num) ==
    IF IsFunction(func_or_num) \/ IsNumber(func_or_num)
    THEN Function(<<"subtracted", self, func_or_num>>)
    ELSE TypeError("-")

\* the reflected subtraction taken for the direct one
__rsub__direct(self, func_or_num) == __sub__(self, func_or_num)

__rsub__(self, func_or_num) ==
    LET negated == __neg__(self)
    IN  __add__(negated, func_or_num)

__mul__(self, func_or_num) ==
    IF IsFunction(func_or_num) \/ IsNumber(func_or_num)
    THEN Function(<<"multiplied", self, func_or_num>>)
    ELSE TypeError("*")

__rmul__(self, func_or_num) == __mul__(self, func_or_num)

__truediv__(self, func_or_num) ==
    IF IsFunction(func_or_num) \/ IsNumber(func_or_num)
    THEN Function(<<"divided", self, func_or_num>>)
    ELSE TypeError("/")

__rtruediv__(self, func_or_num) ==
    LET inversed == Function(<<"inverse", self>>)
    IN  __mul__(inversed, func_or_num)

__pow__(self, func_or_num) ==
    IF IsFunction(func_or_num) \/ IsNumber(func_or_num)
    THEN Function(<<"power", self, func_or_num>>)
    ELSE TypeError("**")

__rpow__(self, func_or_num) ==
    LET ln_func_or_num == __call__(Function(<<"math.log">>), func_or_num)
        exp_self == __call__(Function(<<"math.exp">>), self)
    IN  IF IsRaised(ln_func_or_num) THEN ln_func_or_num
        ELSE __pow__(exp_self, ln_func_or_num)

derivative(self, dx) == Function(<<"deriv", self, dx>>)

\* Elementary Function instances
exp == Function(<<"math.exp">>)
log == Function(<<"_log">>)
sin == Function(<<"math.sin">>)
arcsin == Function(<<"math.asin">>)
cos == Function(<<"math.cos">>)
arccos == Function(<<"math.acos">>)
tan == Function(<<"math.tan">>)
arctan == Function(<<"math.atan">>)
sqrt == Function(<<"math.sqrt">>)
x == Function(<<"lambda num: num">>)

Elementary == {exp, log, sin, arcsin, cos, arccos, tan, arctan, sqrt, x}

---------------------------------------------------------------------------
(* A session applying the operators of Function and evaluating the result. *)

None == <<"None">>
NoVal == <<"none", 0, 1>>

\* operands a caller hands to an operator: numbers, Functions, anything else
Numbers == {Zero, Two, Rat(-1, 2)}
Invalid == {<<"str">>}
Operands == Numbers \cup {x, log, sin} \cup Invalid
\* a reflected method runs only when the left operand is not a Function
Reflected == Numbers \cup Invalid
\* points of evaluation and steps of derivative()
Points == {Rat(-1, 1), Zero, Rat(1, 2), One, Two}
Steps == {Zero, Rat(1, 2), One}

\* Functions built beforehand: log(-x) and 1/x
Composite == {__call__(log, __neg__(x)), __rtruediv__(x, One)}

\* the Functions an operator may be applied to, with the length of their chain:
\* a session starts from an existing Function and goes on with the result of
\* its last operator until it starts to evaluate it
Selfs ==
    IF op = "none" THEN {<<f, 1>> : f \in Elementary \cup Composite}
    ELSE IF IsFunction(out) /\ depth < MaxDepth /\ val = NoVal THEN {<<out, depth + 1>>}
    ELSE {}

Init ==
    /\ op = "none" /\ lhs = None /\ rhs = None /\ out = None /\ depth = 0
    /\ pt = NoVal /\ val = NoVal /\ halved = FALSE
    /\ ipc = "idle" /\ ifn = None /\ iargs = None
    /\ intervals_to_integrate = <<>>
    /\ acc_int = Zero /\ iret = NoVal /\ iters = 0
    /\ calls = 0 /\ ret1 = NoVal /\ accepted = <<>>
    /\ npc = "idle" /\ nargs = None /\ nret = NoVal /\ nevals = 0
    /\ gpc = "idle" /\ gargs = None
    /\ domain = <<>> /\ curr = NoVal /\ f_evals = <<>> /\ grid = <<>>
    /\ gret = NoVal

\* an operator that stores its result in its own left operand
Applied_inplace(name, s, other, result) ==
    /\ op' = name /\ lhs' = result /\ rhs' = other /\ out' = result /\ depth' = s[2]
    /\ pt' = NoVal /\ val' = NoVal /\ halved' = FALSE
    /\ UNCHANGED <<intVars, normVars, gridVars>>

Applied(name, s, other, result) ==
    /\ op' = name /\ lhs' = s[1] /\ rhs' = other /\ out' = result /\ depth' = s[2]
    /\ pt' = NoVal /\ val' = NoVal /\ halved' = FALSE
    /\ UNCHANGED <<intVars, normVars, gridVars>>

Call == \E s \in Selfs, v \in Operands : Applied("__call__", s, v, __call__(s[1], v))
Neg == \E s \in Selfs : Applied("__neg__", s, None, __neg__(s[1]))
Pos == \E s \in Selfs : Applied("__pos__", s, None, __pos__(s[1]))
AbsOf == \E s \in Selfs : Applied("__abs__", s, None, __abs__(s[1]))
Add == \E s \in Selfs, v \in Operands : Applied("__add__", s, v, __add__(s[1], v))
RAdd == \E s \in Selfs, v \in Reflected : Applied("__radd__", s, v, __radd__(s[1], v))
Sub == \E s \in Selfs, v \in Operands : Applied("__sub__", s, v, __sub__(s[1], v))
RSub == \E s \in Selfs, v \in Reflected : Applied("__rsub__", s, v, __rsub__(s[1], v))
Mul == \E s \in Selfs, v \in Operands : Applied("__mul__", s, v, __mul__(s[1], v))
RMul == \E s \in Selfs, v \in Reflected : Applied("__rmul__", s, v, __rmul__(s[1], v))
TrueDiv ==
    \E s \in Selfs, v \in Operands : Applied("__truediv__", s, v, __truediv__(s[1], v))
RTrueDiv ==
    \E s \in Selfs, v \in Reflected : Applied("__rtruediv__", s, v, __rtruediv__(s[1], v))
Pow == \E s \in Selfs, v \in Operands : Applied("__pow__", s, v, __pow__(s[1], v))
RPow == \E s \in Selfs, v \in Reflected : Applied("__rpow__", s, v, __rpow__(s[1], v))
Derivative == \E s \in Selfs, dx \in Steps : Applied("derivative", s, dx, derivative(s[1], dx))

\* out.eval(t); the Function itself is left as it was
Evaluate ==
    /\ IsFunction(out)
    /\ \E t \in Points :
        /\ pt' = t
        /\ val' = eval(out, t)
        /\ halved' = (halved \/ (out[2][1] = "deriv" /\ DerivHalves(out[2][2], out[2][3], t)))
    /\ UNCHANGED <<op, lhs, rhs, out, depth>>
    /\ UNCHANGED <<intVars, normVars, gridVars>>

Next ==
    \/ Call \/ Neg \/ Pos \/ AbsOf
    \/ Add \/ RAdd \/ Sub \/ RSub \/ Mul \/ RMul
    \/ TrueDiv \/ RTrueDiv \/ Pow \/ RPow
    \/ Derivative \/ Evaluate

Spec == Init /\ [][Next]_vars

---------------------------------------------------------------------------
(* Function.integrate: one step of the model is one pass of the while      *)
(* loop.  A session makes the call f.integrate(start, end, tol, MAX) and   *)
(* then the call in the other direction, f.integrate(end, start, tol, MAX).*)

\* _simpsons_rule
_simpsons_rule(self, start, end) ==
    NumMul(NumDiv(NumSub(end, start), Rat(8, 1)),
           NumAdd(NumAdd(NumAdd(eval(self, start),
                                NumMul(Rat(3, 1),
                                       eval(self, NumDiv(NumAdd(NumMul(Two, start), end),
                                                         Rat(3, 1))))),
                         NumMul(Rat(3, 1),
                                eval(self, NumDiv(NumAdd(start, NumMul(Two, end)),
                                                  Rat(3, 1))))),
                  eval(self, end)))

\* start after "if math.isnan(self.eval(start)): start += tol**3"
NudgedStart(self, start, tol) ==
    LET v == eval(self, start)
    IN  IF IsExc(v) THEN v
        ELSE IF isnan(v) THEN NumAdd(start, NumPow(tol, Rat(3, 1)))
        ELSE start

\* end after "if math.isnan(self.eval(end)): end -= tol**3"
NudgedEnd(self, end, tol) ==
    LET v == eval(self, end)
    IN  IF IsExc(v) THEN v
        ELSE IF isnan(v) THEN NumSub(end, NumPow(tol, Rat(3, 1)))
        ELSE end

\* the value of a local variable: its expression is evaluated once, when it
\* is assigned
Only(S) == CHOOSE v \in S : TRUE

\* a tolerance test without the factor 15 of the error estimate
Outcome_strict(start, end, midpoint, left, right, whole, tol) ==
    LET error == NumAbs(NumSub(NumAdd(left, right), whole))
    IN  [start |-> start, end |-> end, midpoint |-> midpoint,
         raised |-> error,
         accept |-> NumLe(error, tol),
         refined |-> NumAdd(NumAdd(left, right),
                            NumDiv(NumSub(NumAdd(left, right), whole), Rat(15, 1)))]

\* a tolerance test that passes unless the error is known to be too large
Outcome_unlessLarger(start, end, midpoint, left, right, whole, tol) ==
    LET error == NumAbs(NumSub(NumAdd(left, right), whole))
    IN  [start |-> start, end |-> end, midpoint |-> midpoint,
         raised |-> error,
         accept |-> ~NumGt(error, NumMul(Rat(15, 1), tol)),
         refined |-> NumAdd(NumAdd(left, right),
                            NumDiv(NumSub(NumAdd(left, right), whole), Rat(15, 1)))]

\* the branch taken with the three estimates, and the refined value
Outcome(start, end, midpoint, left, right, whole, tol) ==
    LET error == NumAbs(NumSub(NumAdd(left, right), whole))
    IN  [start |-> start, end |-> end, midpoint |-> midpoint,
         raised |-> error,
         accept |-> NumLe(error, NumMul(Rat(15, 1), tol)),
         refined |-> NumAdd(NumAdd(left, right),
                            NumDiv(NumSub(NumAdd(left, right), whole), Rat(15, 1)))]

\* midpoint, left, right, whole for the nudged interval (start, end)
Estimates(self, start, end, tol) ==
    IF IsExc(start) \/ IsExc(end)
    THEN [start |-> start, end |-> end, midpoint |-> NaN,
          raised |-> IF IsExc(start) THEN start ELSE end,
          accept |-> FALSE, refined |-> NaN]
    ELSE Only({Outcome(start, end, midpoint, left, right, whole, tol) :
                  midpoint \in {NumDiv(NumAdd(start, end), Two)},
                  left \in {_simpsons_rule(self, start, NumDiv(NumAdd(start, end), Two))},
                  right \in {_simpsons_rule(self, NumDiv(NumAdd(start, end), Two), end)},
                  whole \in {_simpsons_rule(self, start, end)}})

\* the body of the loop on the popped interval (start0, end0)
LoopBody(self, start0, end0, tol) ==
    Only({Estimates(self, start, end, tol) :
             start \in {NudgedStart(self, start0, tol)},
             end \in {NudgedEnd(self, end0, tol)}})

\* the guard at the head of the loop: "if acc_int > MAX"
GuardFires(acc, MAX) == NumGt(acc, MAX)

\* a constant, a constant with a hole at 0, a jump with a hole at 0, a rule
\* with a non-integrable pole at 0 and its negation, one undefined on a
\* half-line, one that raises on a half-line, one that is 225 at 0 and 0
\* elsewhere
five == __add__(__mul__(x, Zero), Rat(5, 1))
hole == __truediv__(x, x)
jump == __mul__(__truediv__(__abs__(x), x), Rat(6, 1))
polar == Function(<<"pole">>)
needled == Function(<<"needle">>)
Integrands ==
    {x, five, __neg__(five), hole, jump, polar, __neg__(polar), log, sqrt,
     __mul__(needled, needled)}
Ranges == {<<Zero, One>>, <<Rat(-1, 1), One>>, <<Zero, Two>>}
Tols == {Rat(1, 2), Rat(1, 4)}
MAXs == {Two, Rat(10, 1)}

\* f.integrate(start, end, tol, MAX) is entered
Enter(f, a, b, tol, MAX) ==
    /\ ifn' = f
    /\ iargs' = <<a, b, tol, MAX>>
    /\ intervals_to_integrate' = << <<a, b>> >>
    /\ acc_int' = Zero
    /\ accepted' = <<>>
    /\ iters' = 0
    /\ iret' = NoVal
    /\ ipc' = "loop"

Integrate ==
    /\ ipc = "idle" /\ calls = 0 /\ npc = "idle"
    /\ \E f \in Integrands, r \in Ranges, tol \in Tols, MAX \in MAXs :
            Enter(f, r[1], r[2], tol, MAX)
    /\ calls' = 1
    /\ UNCHANGED ret1
    /\ UNCHANGED <<algVars, normVars, gridVars>>

\* the same Function integrated in the other direction
IntegrateBack ==
    /\ ipc = "returned" /\ calls = 1 /\ npc = "idle"
    /\ Enter(ifn, iargs[2], iargs[1], iargs[3], iargs[4])
    /\ calls' = 2
    /\ ret1' = iret
    /\ UNCHANGED <<algVars, normVars, gridVars>>

Top == intervals_to_integrate[Len(intervals_to_integrate)]
\* a work-list that gives up its oldest interval instead of the one processed
Popped_oldest == Tail(intervals_to_integrate)
Popped == SubSeq(intervals_to_integrate, 1, Len(intervals_to_integrate) - 1)
Looping ==
    /\ ipc = "loop" /\ intervals_to_integrate # <<>> /\ iters < MaxIter

\* "if acc_int > MAX: return float('nan')"
GuardReturn ==
    /\ Looping
    /\ GuardFires(acc_int, iargs[4])
    /\ iret' = NaN
    /\ ipc' = "returned"
    /\ UNCHANGED <<ifn, iargs, intervals_to_integrate, acc_int, iters, calls, ret1, accepted>>
    /\ UNCHANGED <<algVars, normVars, gridVars>>

\* a pass of the loop that meets the tolerance
Accept ==
    /\ Looping
    /\ ~GuardFires(acc_int, iargs[4])
    /\ \E b \in {LoopBody(ifn, Top[1], Top[2], iargs[3])} :
           /\ ~IsExc(b.raised)
           /\ b.accept
           /\ acc_int' = NumAdd(acc_int, b.refined)
           /\ accepted' = Append(accepted, <<b.start, b.end>>)
           /\ intervals_to_integrate' = Popped
    /\ iters' = iters + 1
    /\ UNCHANGED <<ipc, ifn, iargs, iret, calls, ret1>>
    /\ UNCHANGED <<algVars, normVars, gridVars>>

\* a pass of the loop that does not: the interval is divided again
Split ==
    /\ Looping
    /\ ~GuardFires(acc_int, iargs[4])
    /\ \E b \in {LoopBody(ifn, Top[1], Top[2], iargs[3])} :
           /\ ~IsExc(b.raised)
           /\ ~b.accept
           /\ intervals_to_integrate' =
                  Popped \o << <<b.start, b.midpoint>>, <<b.midpoint, b.end>> >>
    /\ iters' = iters + 1
    /\ UNCHANGED <<ipc, ifn, iargs, acc_int, iret, calls, ret1, accepted>>
    /\ UNCHANGED <<algVars, normVars, gridVars>>

\* an evaluation of the integrand raises: so does integrate
Raise ==
    /\ Looping
    /\ ~GuardFires(acc_int, iargs[4])
    /\ \E b \in {LoopBody(ifn, Top[1], Top[2], iargs[3])} :
           /\ IsExc(b.raised)
           /\ iret' = b.raised
           /\ intervals_to_integrate' = Popped
    /\ ipc' = "returned"
    /\ iters' = iters + 1
    /\ UNCHANGED <<ifn, iargs, acc_int, calls, ret1, accepted>>
    /\ UNCHANGED <<algVars, normVars, gridVars>>

\* the work-list is empty: "return acc_int"
Return ==
    /\ ipc = "loop" /\ intervals_to_integrate = <<>>
    /\ iret' = acc_int
    /\ ipc' = "returned"
    /\ UNCHANGED <<ifn, iargs, intervals_to_integrate, acc_int, iters, calls, ret1, accepted>>
    /\ UNCHANGED <<algVars, normVars, gridVars>>

---------------------------------------------------------------------------
(* norm(func, norm_type, tol).  A norm_type is a Python str, modelled by   *)
(* the sequence of its characters.  The call is followed up to the point   *)
(* where it raises, returns NaN or enters integrate; the loop of integrate *)
(* then runs as above and NormReturn is the rest of line 417.              *)

\* MAX when the caller of integrate gives none is 1e10: in the model 10^MAXDigits
MAXDigits == 1
DefaultMAX == Rat(IntPow(10, MAXDigits), 1)

Digits == <<"0", "1", "2", "3", "4", "5", "6", "7", "8", "9">>
IsDigit(c) == \E i \in 1..10 : Digits[i] = c
DigitVal(c) == (CHOOSE i \in 1..10 : Digits[i] = c) - 1

RECURSIVE LStrip(_)
LStrip(s) == IF s # <<>> /\ Head(s) = " " THEN LStrip(Tail(s)) ELSE s
RECURSIVE RStrip(_)
RStrip(s) ==
    IF s # <<>> /\ s[Len(s)] = " " THEN RStrip(SubSeq(s, 1, Len(s) - 1)) ELSE s
RECURSIVE DigitsVal(_, _)
DigitsVal(s, n) == IF s = <<>> THEN n ELSE DigitsVal(Tail(s), 10 * n + DigitVal(Head(s)))

\* int(s) for a str s: blanks around, an optional sign, then decimal digits
int(s) ==
    LET t == RStrip(LStrip(s))
        signed == t # <<>> /\ Head(t) \in {"+", "-"}
        u == IF signed THEN Tail(t) ELSE t
    IN  IF u = <<>> \/ \E i \in 1..Len(u) : ~IsDigit(u[i]) THEN Exc("ValueError")
        ELSE IF signed /\ Head(t) = "-" THEN Rat(-DigitsVal(u, 0), 1)
        ELSE Rat(DigitsVal(u, 0), 1)

\* the points and the threshold of the convergence probe: 1e5, 1e6, 1e-5
Probe5 == Rat(100000, 1)
Probe6 == Rat(1000000, 1)
ProbeSmall == Rat(1, 100000)

\* abs(func)**norm_type
func_to_integrate(func, norm_type) == __pow__(__abs__(func), norm_type)

\* the evaluations of lines 401-402, in the order they are made
ProbeValues(g) ==
    <<eval(g, Probe5), eval(g, Probe6), eval(g, NumNeg(Probe5)), eval(g, NumNeg(Probe6))>>

\* the first evaluation of the probe that raises, 0 if none does
FirstRaise(vs) ==
    IF \E i \in 1..4 : IsExc(vs[i])
    THEN CHOOSE i \in 1..4 : IsExc(vs[i]) /\ \A j \in 1..(i - 1) : ~IsExc(vs[j])
    ELSE 0

\* cond1 and cond2 and cond3 and cond4
integrable(vs) ==
    /\ NumLe(NumAbs(vs[2]), NumAbs(vs[1]))
    /\ NumLe(NumAbs(vs[4]), NumAbs(vs[3]))
    /\ NumLt(NumAbs(vs[1]), ProbeSmall)
    /\ NumLt(NumAbs(vs[3]), ProbeSmall)

\* the substitution alone, without the factor of the change of variables
changed_plain(g) == __call__(g, __truediv__(x, __rsub__(__pow__(x, Two), One)))

\* func_to_integrate(x/(1-x**2)) * (1+x**2)/((1-x**2)**2)
changed(g) ==
    __truediv__(__mul__(__call__(g, __truediv__(x, __rsub__(__pow__(x, Two), One))),
                        __radd__(__pow__(x, Two), One)),
                __pow__(__rsub__(__pow__(x, Two), One), Two))

\* the try block: what it raises, whether integrable, how many evaluations
Probing(g) ==
    Only({ IF FirstRaise(vs) = 0
           THEN [raised |-> None, integrable |-> integrable(vs), evals |-> 6]
           ELSE IF vs[FirstRaise(vs)] = Exc("OverflowError")
           THEN [raised |-> None, integrable |-> FALSE, evals |-> FirstRaise(vs)]
           ELSE [raised |-> vs[FirstRaise(vs)], integrable |-> FALSE,
                 evals |-> FirstRaise(vs)] : vs \in {ProbeValues(g)} })

\* norm up to line 416
NormHead(func, norm_type) ==
    IF norm_type = <<>>
    THEN [raised |-> Exc("IndexError"), integrable |-> FALSE, evals |-> 0]
    ELSE IF norm_type[1] # "L"
    THEN [raised |-> Exc("ValueError"), integrable |-> FALSE, evals |-> 0]
    ELSE IF IsExc(int(Tail(norm_type)))
    THEN [raised |-> Exc("ValueError"), integrable |-> FALSE, evals |-> 0]
    ELSE Probing(func_to_integrate(func, int(Tail(norm_type))))

\* Functions of rules supplied by the caller
bumped == Function(<<"bump">>)

NormFuncs == {bumped, needled, five, __mul__(x, Zero), exp, log, sqrt}
Kinds ==
    {<<>>, <<"L">>, <<"L", "x">>, <<"M", "2">>, <<"L", "1">>, <<"L", "2">>,
     <<"L", "-", "1">>, <<"L", "0">>, <<"L", " ", "2">>}

NormTols == {Rat(1, 2), One}

NormCall ==
    /\ ipc = "idle" /\ calls = 0 /\ npc = "idle"
    /\ \E func \in NormFuncs, norm_type \in Kinds, tol \in NormTols :
        \E h \in {NormHead(func, norm_type)} :
            /\ nargs' = <<func, norm_type, tol>>
            /\ nevals' = h.evals
            /\ IF h.raised # None
               THEN nret' = h.raised /\ npc' = "returned" /\ UNCHANGED intVars
               ELSE IF ~h.integrable
               THEN nret' = NaN /\ npc' = "returned" /\ UNCHANGED intVars
               ELSE /\ Enter(changed(func_to_integrate(func, int(Tail(norm_type)))),
                             Rat(-1, 1), One, tol, DefaultMAX)
                    /\ calls' = 1
                    /\ nret' = NoVal /\ npc' = "integrating"
                    /\ UNCHANGED ret1
    /\ UNCHANGED <<algVars, gridVars>>

\* "return (func_to_integrate.integrate(-1, 1, tol=tol))**(1/norm_type)"
NormReturn ==
    /\ npc = "integrating" /\ ipc = "returned"
    /\ nret' = NumPow(iret, NumDiv(One, int(Tail(nargs[2]))))
    /\ npc' = "returned"
    /\ UNCHANGED <<nargs, nevals>>
    /\ UNCHANGED <<algVars, intVars, gridVars>>

NextIntegrate ==
    \/ Integrate \/ IntegrateBack
    \/ GuardReturn \/ Accept \/ Split \/ Raise \/ Return
    \/ NormCall \/ NormReturn

SpecIntegrate == Init /\ [][NextIntegrate]_vars

\* a session of either kind: operators and evaluations, or integrate and norm
NextAll ==
    \/ ipc = "idle" /\ npc = "idle" /\ Next
    \/ op = "none" /\ NextIntegrate

SpecAll == Init /\ [][NextAll]_vars

---------------------------------------------------------------------------
(* Function._plot and Function._get_eval_grid: one step of the model is    *)
(* one pass of "while curr < end"; the rest of _get_eval_grid is one step  *)
(* and the rest of _plot, up to the opaque rendering, is another.          *)

\* how many points of a domain the loop is followed for
MaxPoints == 6

GridFuncs == {x, log, hole, sqrt}
GridEnds == {Rat(-1, 1), Zero, One}
GridSteps == {Rat(1, 2), One, Zero, Rat(-1, 2)}

\* "grid = self._get_eval_grid(start, end, step)": domain = []; curr = start
PlotCall ==
    /\ gpc = "idle"
    /\ \E self \in GridFuncs, start \in GridEnds, end \in GridEnds, step \in GridSteps :
        /\ gargs' = <<self, start, end, step>>
        /\ curr' = start
    /\ domain' = <<>>
    /\ gpc' = "while"
    /\ UNCHANGED <<f_evals, grid, gret>>
    /\ UNCHANGED <<algVars, intVars, normVars>>

\* a pass of the loop: "domain.append(curr); curr += step"
WhilePass ==
    /\ gpc = "while" /\ NumLt(curr, gargs[3])
    /\ Len(domain) < MaxPoints
    /\ domain' = Append(domain, curr)
    /\ curr' = NumAdd(curr, gargs[4])
    /\ UNCHANGED <<gpc, gargs, f_evals, grid, gret>>
    /\ UNCHANGED <<algVars, intVars, normVars>>

\* [self.eval(x) for x in domain]
Evals(self, dom) == [i \in 1..Len(dom) |-> eval(self, dom[i])]
\* the first exception raised while the list is built, NoVal if none is
FirstRaised(evs) ==
    IF \E i \in 1..Len(evs) : IsExc(evs[i])
    THEN evs[CHOOSE i \in 1..Len(evs) : IsExc(evs[i]) /\ \A j \in 1..(i - 1) : ~IsExc(evs[j])]
    ELSE NoVal

\* the loop is left: "domain.append(end)", the evaluations, the return
GridReturn ==
    /\ gpc = "while" /\ ~NumLt(curr, gargs[3])
    /\ domain' = Append(domain, gargs[3])
    /\ \E evs \in {Evals(gargs[1], Append(domain, gargs[3]))} :
        IF FirstRaised(evs) # NoVal
        THEN gret' = FirstRaised(evs) /\ gpc' = "raised" /\ UNCHANGED f_evals
        ELSE f_evals' = evs /\ gpc' = "returned" /\ UNCHANGED gret
    /\ UNCHANGED <<gargs, curr, grid>>
    /\ UNCHANGED <<algVars, intVars, normVars>>

\* zip(*grid) of the pair of lists (domain, f_evals)
Zipped(dom, evs) == [i \in 1..Len(dom) |-> <<dom[i], evs[i]>>]
NotNaNPoint(point) == ~isnan(point[2])
\* [point for point in grid if not math.isnan(point[1])]
Kept(dom, evs) == SelectSeq(Zipped(dom, evs), NotNaNPoint)

\* the rest of _plot: the singularities are removed, the lists are unzipped;
\* "domain, f_evals = zip(*grid)" raises ValueError when no point is left
Discard ==
    /\ gpc = "returned"
    /\ grid' = Kept(domain, f_evals)
    /\ IF Kept(domain, f_evals) = <<>>
       THEN gret' = Exc("ValueError") /\ gpc' = "raised" /\ UNCHANGED <<domain, f_evals>>
       ELSE /\ domain' = [i \in 1..Len(Kept(domain, f_evals)) |-> Kept(domain, f_evals)[i][1]]
            /\ f_evals' = [i \in 1..Len(Kept(domain, f_evals)) |-> Kept(domain, f_evals)[i][2]]
            /\ gpc' = "plotted"
            /\ UNCHANGED gret
    /\ UNCHANGED <<gargs, curr>>
    /\ UNCHANGED <<algVars, intVars, normVars>>

NextGrid == PlotCall \/ WhilePass \/ GridReturn \/ Discard

SpecGrid == Init /\ [][NextGrid]_vars
\* the loop is left when its test is false
LeaveLoop == gpc = "while" /\ ~NumLt(curr, gargs[3]) /\ gpc' \in {"returned", "raised"}
\* the interpreter goes on running _get_eval_grid: it takes the next pass of
\* the loop while the test holds and leaves the loop when it does not
SpecGridFair == SpecGrid /\ WF_gridVars(WhilePass) /\ WF_gpc(LeaveLoop)

---------------------------------------------------------------------------
(* Properties of the operators *)

Evaluated == val # NoVal
\* the operands of the last operator at the point of evaluation
LhsAt == eval(lhs, pt)
RhsAt == IF IsFunction(rhs) THEN eval(rhs, pt) ELSE rhs

\* C1: the binary combinators are pointwise: (f+g)(t) = f(t)+g(t), likewise
\* -, *, ** with a Function or a scalar on the right, and for a scalar c on
\* the left (c+f)(t) = (f+c)(t), (c*f)(t) = (f*c)(t), (c-f)(t) = c - f(t).
C1_Pointwise ==
    Evaluated =>
        /\ op = "__add__" => val = NumAdd(LhsAt, RhsAt)
        /\ op = "__sub__" => val = NumSub(LhsAt, RhsAt)
        /\ op = "__mul__" => val = NumMul(LhsAt, RhsAt)
        /\ op = "__pow__" => val = NumPow(LhsAt, RhsAt)
        /\ op = "__radd__" => val = NumAdd(LhsAt, rhs)
        /\ op = "__rmul__" => val = NumMul(LhsAt, rhs)
        /\ op = "__rsub__" => val = NumSub(rhs, LhsAt)

\* c - f evaluated where it differs from f - c
C1_Witness ==
    /\ Evaluated /\ op = "__rsub__" /\ IsNum(val)
    /\ val = NumSub(rhs, LhsAt) /\ val # NumSub(LhsAt, rhs)

C3_Call ==
    op = "__call__" =>
        /\ IsNumber(rhs) => out = eval(lhs, rhs)
        /\ IsFunction(rhs) =>
                /\ IsFunction(out) /\ out # lhs /\ out # rhs
                /\ Evaluated => val = eval(lhs, eval(rhs, pt))
        /\ (~IsNumber(rhs) /\ ~IsFunction(rhs)) => out[1] = "TypeError"

\* f(g) evaluated where g is NaN (the NaN goes into f) and where the order of
\* composition shows
C3_Witness ==
    /\ op = "__call__" /\ IsFunction(rhs) /\ Evaluated
    /\ \/ isnan(eval(rhs, pt))
       \/ IsNum(val) /\ val # eval(rhs, eval(lhs, pt))

\* the symbol of the operator the caller applied
Symbol(name) ==
    CASE name \in {"__add__", "__radd__"} -> "+"
      [] name \in {"__sub__", "__rsub__"} -> "-"
      [] name \in {"__mul__", "__rmul__"} -> "*"
      [] name \in {"__truediv__", "__rtruediv__"} -> "/"
      [] name \in {"__pow__", "__rpow__"} -> "**"
      [] OTHER -> "call"

Binary ==
    {"__add__", "__radd__", "__sub__", "__rsub__", "__mul__", "__rmul__",
     "__truediv__", "__rtruediv__", "__pow__", "__rpow__"}

\* C4: an operand that is neither a number nor a Function makes each of
\* + - * / ** (direct and reflected) raise TypeError when it is applied, and
\* the error names the operator the caller applied.
C4_TypeErrorNamesOperator ==
    (op \in Binary /\ rhs \in Invalid) => out = TypeError(Symbol(op))

\* C5: an elementary Function, or a Function built from them with the
\* combinators, evaluated at a finite real returns a finite real or NaN or
\* reports an overflow, and n ** f does not raise for any number n.
C5_NaNNeverError ==
    /\ Evaluated => val[1] \in {"num", "nan", "OverflowError"}
    /\ (op = "__call__" /\ IsNumber(rhs)) => out[1] \in {"num", "nan", "OverflowError"}
    /\ (op = "__rpow__" /\ IsNumber(rhs)) => IsFunction(out)

\* f(t+h), f(t-h) for the Function f = lhs whose derivative(h = rhs) is out
FPosh == eval(lhs, NumAdd(pt, rhs))
FNegh == eval(lhs, NumSub(pt, rhs))

\* C6: if f(t) is NaN then f.derivative(h) at t is NaN, whatever f(t+h) and
\* f(t-h) are.
C6_DerivNaN ==
    (op = "derivative" /\ Evaluated /\ isnan(LhsAt)) => isnan(val)

\* the derivative evaluated at a point where f is NaN and both neighbours finite
C6_Witness ==
    /\ op = "derivative" /\ Evaluated /\ isnan(LhsAt)
    /\ IsNum(FPosh) /\ IsNum(FNegh) /\ FPosh # FNegh /\ rhs # Zero
    /\ isnan(val)

\* C7: for f(t) not NaN, (f(t+h) - f(t-h))/(2h) when neither neighbour is
\* NaN; (f(t) - f(t-h))/h when only f(t+h) is NaN; (f(t+h) - f(t))/h when
\* only f(t-h) is NaN; the Function keeps its step h whatever was evaluated.
C7_DerivCases ==
    (op = "derivative" /\ Evaluated) =>
        /\ out = derivative(lhs, rhs)
        /\ (IsNum(LhsAt) /\ IsNum(FPosh) /\ IsNum(FNegh)) =>
                val = NumDiv(NumSub(FPosh, FNegh), NumMul(Two, rhs))
        /\ (IsNum(LhsAt) /\ isnan(FPosh) /\ IsNum(FNegh)) =>
                val = NumDiv(NumSub(LhsAt, FNegh), rhs)
        /\ (IsNum(LhsAt) /\ IsNum(FPosh) /\ isnan(FNegh)) =>
                val = NumDiv(NumSub(FPosh, LhsAt), rhs)

\* after an evaluation that halved the step, an evaluation with both
\* neighbours finite and a non-zero centered difference
C7_Witness ==
    /\ op = "derivative" /\ Evaluated /\ halved
    /\ IsNum(LhsAt) /\ IsNum(FPosh) /\ IsNum(FNegh)
    /\ IsNum(val) /\ val # Zero

---------------------------------------------------------------------------
(* Properties of integrate *)

Returned == ipc = "returned"

\* C8: integrate returns NaN once the running total exceeds MAX in absolute
\* value, whatever its sign and whichever accepted interval caused it, so
\* every value it returns that is not NaN is at most MAX in absolute value.
C8_BoundedResult ==
    (Returned /\ IsNum(iret)) => NumLe(NumAbs(iret), iargs[4])

\* C9: f.integrate(b, a) is the negation of f.integrate(a, b), both NaN when
\* one is NaN, also when f is NaN at an endpoint and when the guard fires in
\* one of the two runs.
C9_Direction ==
    (Returned /\ calls = 2) =>
        IF IsNum(ret1) /\ IsNum(iret) THEN iret = NumNeg(ret1) ELSE iret = ret1

\* C10: on a divergent integral, towards +infinity or -infinity, the call
\* that returns returns NaN.
C10_DivergentIsNaN ==
    (Returned /\ ifn \in {polar, __neg__(polar)}) => isnan(iret)

---------------------------------------------------------------------------
(* Properties of norm *)

NormCalled == npc # "idle"
\* the kind of the call is "L" followed by what int() accepts
WellFormed == nargs[2] # <<>> /\ nargs[2][1] = "L" /\ ~IsExc(int(Tail(nargs[2])))

\* C11: norm raises ValueError for every kind that is not "L" followed by an
\* integer (the empty string included), and raises it before evaluating the
\* function at any point; for a well-formed kind it raises no ValueError.
C11_ValueErrorBeforeEvaluation ==
    NormCalled =>
        IF WellFormed THEN nret # Exc("ValueError")
        ELSE npc = "returned" /\ nret = Exc("ValueError") /\ nevals = 0

\* the probe values of the call, g = abs(func)**p
ProbeOfCall == ProbeValues(func_to_integrate(nargs[1], int(Tail(nargs[2]))))
\* the convergence probe fails in one of the ways the documentation lists
ProbeFailed(vs) ==
    \/ IsNum(vs[1]) /\ IsNum(vs[2]) /\ NumLt(NumAbs(vs[1]), NumAbs(vs[2]))
    \/ IsNum(vs[3]) /\ IsNum(vs[4]) /\ NumLt(NumAbs(vs[3]), NumAbs(vs[4]))
    \/ IsNum(vs[1]) /\ NumLe(ProbeSmall, NumAbs(vs[1]))
    \/ IsNum(vs[3]) /\ NumLe(ProbeSmall, NumAbs(vs[3]))
    \/ \E i \in 1..4 : isnan(vs[i])
    \/ \E i \in 1..4 : vs[i] = Exc("OverflowError")

\* C12: when the convergence probe of g = |f|^p fails (a comparison of the
\* four samples fails, a sample is NaN, or sampling overflows) norm returns
\* NaN without raising and without calling integrate; integrate is entered
\* only when all four conditions hold.
C12_ProbeFailureIsNaN ==
    (NormCalled /\ WellFormed) =>
        \A vs \in {ProbeOfCall} :
            /\ ProbeFailed(vs) => npc = "returned" /\ isnan(nret) /\ calls = 0
            /\ calls = 1 => (\A i \in 1..4 : IsNum(vs[i])) /\ integrable(vs)

---------------------------------------------------------------------------
(* Frame properties *)

\* a step that applies an operator, and a step that evaluates its result
OperatorStep == val' = NoVal /\ algVars' # algVars
EvalStep == val' # NoVal /\ algVars' # algVars

C13_Step ==
    /\ OperatorStep =>
        /\ lhs' \in {s[1] : s \in Selfs}
        /\ rhs' \in Operands \cup Steps \cup {None}
        /\ IsFunction(out') =>
            IF op' = "__pos__" THEN out' = lhs' ELSE out' # lhs' /\ out' # rhs'
    /\ EvalStep =>
        /\ <<lhs', rhs', out'>> = <<lhs, rhs, out>>
        /\ val' = eval(out, pt')
    /\ ipc # "idle" => ifn' = ifn
    /\ npc # "idle" => nargs'[1] = nargs[1]
    /\ (npc = "idle" /\ npc' # "idle") => nargs'[1] \in NormFuncs
    /\ (ipc = "idle" /\ ipc' # "idle" /\ npc' = "idle") => ifn' \in Integrands

---------------------------------------------------------------------------
(* Properties of the loop of integrate *)

\* the next pass of the loop pops an interval
Popping == ipc = "loop" /\ intervals_to_integrate # <<>> /\ ~GuardFires(acc_int, iargs[4])
\* p lies strictly between a and b, whichever of a and b is the smaller
StrictlyInside(p, a, b) ==
    \/ NumLt(a, p) /\ NumLt(p, b)
    \/ NumLt(b, p) /\ NumLt(p, a)

\* C14: an endpoint of the popped interval at which f is NaN is moved by
\* tol**3 to a point strictly inside the interval, for start < end and for
\* start > end alike; an endpoint at which f is not NaN is left unchanged.
C14_NudgeInward ==
    Popping =>
        \A b \in {LoopBody(ifn, Top[1], Top[2], iargs[3])} :
            (IsNum(b.start) /\ IsNum(b.end)) =>
                /\ IF isnan(eval(ifn, Top[1]))
                   THEN /\ StrictlyInside(b.start, Top[1], Top[2])
                        /\ NumAbs(NumSub(b.start, Top[1])) = NumPow(iargs[3], Rat(3, 1))
                   ELSE b.start = Top[1]
                /\ IF isnan(eval(ifn, Top[2]))
                   THEN /\ StrictlyInside(b.end, Top[1], Top[2])
                        /\ NumAbs(NumSub(b.end, Top[2])) = NumPow(iargs[3], Rat(3, 1))
                   ELSE b.end = Top[2]

\* a step that is one pass of the loop over a popped interval
PassStep == ipc = "loop" /\ iters' = iters + 1

C15_Step ==
    PassStep =>
        \A a \in {NudgedStart(ifn, Top[1], iargs[3])},
           b \in {NudgedEnd(ifn, Top[2], iargs[3])} :
            (~IsExc(a) /\ ~IsExc(b)) =>
                \A m \in {NumDiv(NumAdd(a, b), Two)} :
                    \A S1 \in {_simpsons_rule(ifn, a, m)},
                       S2 \in {_simpsons_rule(ifn, m, b)},
                       S \in {_simpsons_rule(ifn, a, b)} :
                        (IsNumber(S1) /\ IsNumber(S2) /\ IsNumber(S)) =>
                            IF NumLe(NumAbs(NumSub(NumAdd(S1, S2), S)),
                                     NumMul(Rat(15, 1), iargs[3]))
                            THEN /\ acc_int' =
                                      NumAdd(acc_int,
                                             NumAdd(NumAdd(S1, S2),
                                                    NumDiv(NumSub(NumAdd(S1, S2), S),
                                                           Rat(15, 1))))
                                 /\ intervals_to_integrate' = Popped
                            ELSE /\ acc_int' = acc_int
                                 /\ intervals_to_integrate' =
                                        Popped \o << <<a, m>>, <<m, b>> >>

\* C15: for the popped interval (a, b) with midpoint m and the estimates
\* S1 = S(a, m), S2 = S(m, b), S = S(a, b): when |S1 + S2 - S| <= 15*tol the
\* total grows by exactly S1 + S2 + (S1 + S2 - S)/15 and nothing is pushed;
\* otherwise the total is unchanged and exactly (a, m) and (m, b) are pushed.
C15_AcceptOrSplit == [][C15_Step]_vars

\* a run that divided an interval, then accepted a part of it with a
\* non-zero contribution, and still has intervals pending
C15_Witness ==
    /\ ipc = "loop" /\ accepted # <<>> /\ intervals_to_integrate # <<>>
    /\ IsNum(acc_int) /\ acc_int # Zero

---------------------------------------------------------------------------
(* Properties of the integral taken by norm *)

\* p of the kind "Lp", and g = abs(func)**p
POfCall == int(Tail(nargs[2]))
GOfCall == func_to_integrate(nargs[1], POfCall)
\* points inside (-1, 1) at which the integrand is compared
Inner == {Rat(-1, 2), Rat(-1, 8), Zero, Rat(1, 8), Rat(1, 2)}
\* g(t/(1-t^2)) * (1+t^2)/(1-t^2)^2
Substituted(g, t) ==
    NumDiv(NumMul(eval(g, NumDiv(t, NumSub(One, NumMul(t, t)))),
                  NumAdd(One, NumMul(t, t))),
           NumMul(NumSub(One, NumMul(t, t)), NumSub(One, NumMul(t, t))))

\* C16: when the probe passes, norm(f, "Lp", tol) makes one call of
\* integrate, over (-1, 1) with the caller's tol, on the integrand
\* |f|^p(x/(1-x^2)) * (1+x^2)/(1-x^2)^2, which is NaN at -1 and at 1; it
\* returns that integral to the power 1/p, and NaN when the integral is NaN.
C16_NormIntegral ==
    /\ (NormCalled /\ WellFormed) =>
           \A vs \in {ProbeOfCall} :
               ((\A i \in 1..4 : IsNum(vs[i])) /\ integrable(vs)) => calls = 1
    /\ (NormCalled /\ calls = 1) =>
           /\ iargs[1] = Rat(-1, 1) /\ iargs[2] = One /\ iargs[3] = nargs[3]
           /\ isnan(eval(ifn, Rat(-1, 1))) /\ isnan(eval(ifn, One))
           /\ \A t \in Inner : eval(ifn, t) = Substituted(GOfCall, t)
    /\ (npc = "returned" /\ calls = 1) =>
           /\ ipc = "returned"
           /\ IsNum(iret) => nret = NumPow(iret, NumDiv(One, POfCall))
           /\ isnan(iret) => isnan(nret)

\* norm has returned a root of a non-zero integral: p = 2
C16_Witness ==
    /\ npc = "returned" /\ calls = 1 /\ ipc = "returned"
    /\ IsNum(iret) /\ iret # Zero /\ IsNum(nret) /\ nret # iret

\* norm has returned NaN for an integral that integrate gave up as NaN
C16_WitnessNaN == npc = "returned" /\ calls = 1 /\ isnan(iret) /\ isnan(nret)

---------------------------------------------------------------------------
(* Properties of the grid sampling *)

\* start, start + step, ... : the points of the loop, in the order generated
RECURSIVE Stepped(_, _, _, _)
Stepped(from, end, step, n) ==
    IF n = 0 \/ ~NumLt(from, end) THEN <<>>
    ELSE <<from>> \o Stepped(NumAdd(from, step), end, step, n - 1)
Increasing(dom) == \A i \in 1..(Len(dom) - 1) : NumLt(dom[i], dom[i + 1])

C17_Aligned ==
    /\ gpc = "returned" =>
        /\ domain = Stepped(gargs[2], gargs[3], gargs[4], MaxPoints) \o <<gargs[3]>>
        /\ Len(f_evals) = Len(domain)
        /\ \A i \in 1..Len(domain) : f_evals[i] = eval(gargs[1], domain[i])
    /\ gpc = "plotted" =>
        /\ Len(f_evals) = Len(domain) /\ Len(grid) = Len(domain)
        /\ \A i \in 1..Len(domain) :
            /\ grid[i] = <<domain[i], f_evals[i]>>
            /\ f_evals[i] = eval(gargs[1], domain[i])
            /\ ~isnan(f_evals[i])
        /\ Increasing(domain)

\* a pass of the loop brings curr strictly closer to end, the only exit of
\* the loop being curr >= end
C17_Progress ==
    (gpc = "while" /\ gpc' = "while" /\ domain' # domain) => NumLt(curr, curr')

\* C17: the grid sampling terminates for every start, end and step: every
\* pass of its loop moves curr towards end and the loop is left in the end;
\* it generates start, start+step, ... below end and then end, with
\* codomain[i] = f(domain[i]) and both sequences of one length; after the
\* NaN points are discarded the pairs are still aligned, increasing in x,
\* without NaN.
C17_GridSampling ==
    /\ []C17_Aligned
    /\ [][C17_Progress]_vars
    /\ ((gpc = "while") ~> (gpc # "while"))

---------------------------------------------------------------------------
(* Properties of the work-list of integrate *)

\* the integrand is defined everywhere, and start < end
NeverNaN == ifn \in {x, five, __neg__(five), __mul__(needled, needled)}
Forward == NumLt(iargs[1], iargs[2])
\* the intervals pending and the intervals accepted so far
Pieces == intervals_to_integrate \o accepted
RECURSIVE SumLen(_)
SumLen(seq) ==
    IF seq = <<>> THEN Zero
    ELSE NumAdd(NumSub(Head(seq)[2], Head(seq)[1]), SumLen(Tail(seq)))
\* (a, b) is start + k*w/2^n, start + (k+1)*w/2^n of the original interval
Dyadic(a, b) ==
    \E n \in 0..MaxIter :
        /\ NumMul(NumSub(b, a), Rat(IntPow(2, n), 1)) = NumSub(iargs[2], iargs[1])
        /\ \E k \in 0..(IntPow(2, n) - 1) :
               NumSub(a, iargs[1]) = NumMul(NumSub(b, a), Rat(k, 1))

\* C18: for an integrand that is never NaN and start < end, at every loop
\* head the pending and the accepted intervals tile [start, end]: they lie
\* inside it, their interiors are pairwise disjoint and their lengths add up
\* to end - start; every pending interval is a dyadic sub-interval of the
\* original; the work-list is a stack ordered from left to right, so that
\* everything right of a pending interval is accepted before it is popped.
C18_Tiling ==
    (ipc = "loop" /\ NeverNaN /\ Forward) =>
        /\ \A i \in 1..Len(Pieces) :
            /\ NumLt(Pieces[i][1], Pieces[i][2])
            /\ NumLe(iargs[1], Pieces[i][1]) /\ NumLe(Pieces[i][2], iargs[2])
        /\ \A i, j \in 1..Len(Pieces) :
            i < j => \/ NumLe(Pieces[i][2], Pieces[j][1])
                     \/ NumLe(Pieces[j][2], Pieces[i][1])
        /\ SumLen(Pieces) = NumSub(iargs[2], iargs[1])
        /\ \A i \in 1..Len(intervals_to_integrate) :
            Dyadic(intervals_to_integrate[i][1], intervals_to_integrate[i][2])
        /\ \A i, j \in 1..Len(intervals_to_integrate) :
            i < j => NumLe(intervals_to_integrate[i][2], intervals_to_integrate[j][1])
        /\ \A i \in 1..Len(intervals_to_integrate), j \in 1..Len(accepted) :
            NumLe(intervals_to_integrate[i][2], accepted[j][1])

\* a loop head with the left half of a split pending, two more intervals
\* pending to its right and an interval accepted
C18_Witness ==
    /\ ipc = "loop" /\ NeverNaN /\ Forward
    /\ Len(intervals_to_integrate) >= 3 /\ Len(accepted) >= 1

---------------------------------------------------------------------------
(* NaN in integrate *)

C19_State ==
    /\ ~isnan(acc_int)
    /\ (Returned /\ isnan(iret)) =>
           intervals_to_integrate # <<>> /\ GuardFires(acc_int, iargs[4])

C19_Step ==
    PassStep =>
        \A a \in {NudgedStart(ifn, Top[1], iargs[3])},
           b \in {NudgedEnd(ifn, Top[2], iargs[3])} :
            (~IsExc(a) /\ ~IsExc(b)) =>
                \A m \in {NumDiv(NumAdd(a, b), Two)} :
                    \A S1 \in {_simpsons_rule(ifn, a, m)},
                       S2 \in {_simpsons_rule(ifn, m, b)},
                       S \in {_simpsons_rule(ifn, a, b)} :
                        (isnan(S1) \/ isnan(S2) \/ isnan(S)) =>
                            /\ acc_int' = acc_int
                            /\ intervals_to_integrate' =
                                   Popped \o << <<a, m>>, <<m, b>> >>

\* C19: an estimate that is NaN, or whose error estimate is NaN, is never
\* added to the running total: the interval is divided again.  The running
\* total is not NaN in any state, and when integrate returns NaN it does so
\* through the guard: the total exceeds MAX at a loop head with intervals
\* still pending.
C19_NaNContained == []C19_State /\ [][C19_Step]_vars

\* a run whose first pass had a NaN error estimate and divided the interval,
\* and which has since accepted intervals with a non-zero total
C19_Witness ==
    /\ ipc = "loop" /\ iters >= 2 /\ accepted # <<>>
    /\ isnan(LoopBody(ifn, iargs[1], iargs[2], iargs[3]).raised)
    /\ IsNum(acc_int) /\ acc_int # Zero

====
